---- MODULE Spec2Model ----
(***************************************************************************)
(* Credential lifecycle service of the auth backend: the register route,   *)
(* the login route, the protected route and the process start-up.          *)
(* Strings are sequences of one-character strings so that the validators   *)
(* and sanitizers are computed character by character.  Time is counted in *)
(* minutes.  Each handler is cut at its awaits: one action per stretch of  *)
(* code that runs between two awaits.  The store always answers (an        *)
(* unreachable database is not modelled), and of a response the status,    *)
(* the message or error, the user object and the token are kept.           *)
(***************************************************************************)
EXTENDS Integers, Sequences, FiniteSets, TLC

VARIABLES env, listening, users, nextId, clock, ticks, started, issued, req

vars == <<env, listening, users, nextId, clock, ticks, started, issued, req>>

----------------------------------------------------------------------------
(* Bounds of the model *)

MaxRequests == 3
MaxTicks == 2

(* Two handlers run concurrently; a handler that has answered takes the    *)
(* next request.  The clock advances by 59 or by 2 minutes.                *)
Slots == {1, 2}
TickSteps == {59, 2}

----------------------------------------------------------------------------
(* Characters *)

LowerSeq == <<"a","b","c","d","e","f","g","h","i","j","k","l","m",
              "n","o","p","q","r","s","t","u","v","w","x","y","z">>
UpperSeq == <<"A","B","C","D","E","F","G","H","I","J","K","L","M",
              "N","O","P","Q","R","S","T","U","V","W","X","Y","Z">>
Lower == {LowerSeq[i] : i \in 1..Len(LowerSeq)}
Upper == {UpperSeq[i] : i \in 1..Len(UpperSeq)}
Digit == {"0","1","2","3","4","5","6","7","8","9"}
Letters == Lower \cup Upper
Alnum == Letters \cup Digit
Whitespace == {" "}

Chars(s) == {s[i] : i \in 1..Len(s)}

ToLowerChar(c) ==
    IF c \in Upper
    THEN LowerSeq[CHOOSE i \in 1..Len(UpperSeq) : UpperSeq[i] = c]
    ELSE c

ToLowerCase(s) == [i \in 1..Len(s) |-> ToLowerChar(s[i])]

RECURSIVE TrimLeft(_)
TrimLeft(s) ==
    IF s = <<>> THEN s
    ELSE IF Head(s) \in Whitespace THEN TrimLeft(Tail(s)) ELSE s

RECURSIVE TrimRight(_)
TrimRight(s) ==
    IF s = <<>> THEN s
    ELSE IF s[Len(s)] \in Whitespace THEN TrimRight(SubSeq(s, 1, Len(s) - 1)) ELSE s

Trim(s) == TrimRight(TrimLeft(s))

----------------------------------------------------------------------------
(* Values of the program *)

Undefined == "<undefined>"
SecretKey == "s3cr3t-from-dotenv"
ForgedKey == "some-other-key"

UsernameMin == 3
UsernameMax == 30
PasswordMin == 8
BcryptCost == 12
ExpiresIn == 60

Roles == {"user", "admin"}

JoiSymbols == {"!","@","#","$","%","^","&","*"}
ValidatorSymbols == JoiSymbols \cup
    {"-","_","+","=","(",")","|","~","`","{","}","[","]",":",";","'","<",">","?",",",".","/"}
IanaTlds == {<<"c","o","m">>, <<"o","r","g">>, <<"n","e","t">>}

NoUser == [id |-> 0, username |-> <<>>, email |-> <<>>, role |-> ""]
NoRow == [id |-> 0, username |-> <<>>, email |-> <<>>,
          password_hash |-> [cost |-> 0, digest |-> <<>>], role |-> ""]
NoToken == [kind |-> "none", id |-> 0, role |-> "", iat |-> 0, exp |-> 0, key |-> ""]
NoBody == [username |-> <<>>, email |-> <<>>, password |-> <<>>, role |-> Undefined]
NoResp == [status |-> 0, message |-> "", error |-> "", user |-> NoUser, token |-> NoToken]

Idle == [kind |-> "none", pc |-> "idle", sent |-> NoBody, body |-> NoBody,
         row |-> NoRow, presented |-> NoToken, at |-> 0, queries |-> 0,
         inserted |-> FALSE, resp |-> NoResp]

----------------------------------------------------------------------------
(* Email shape, as the two validation libraries decide it *)

AtPositions(s) == {i \in 1..Len(s) : s[i] = "@"}
LocalPart(s) == SubSeq(s, 1, (CHOOSE i \in AtPositions(s) : TRUE) - 1)
DomainPart(s) == SubSeq(s, (CHOOSE i \in AtPositions(s) : TRUE) + 1, Len(s))
DotPositions(d) == {i \in 1..Len(d) : d[i] = "."}
LastDot(d) == CHOOSE i \in DotPositions(d) : \A j \in DotPositions(d) : j <= i
Tld(d) == SubSeq(d, LastDot(d) + 1, Len(d))

DottedOk(d, allowed) ==
    /\ d # <<>>
    /\ Chars(d) \subseteq allowed \cup {"."}
    /\ d[1] # "." /\ d[Len(d)] # "."
    /\ \A i \in DotPositions(d) : (i + 1) \notin DotPositions(d)

EmailShape(s) ==
    /\ Cardinality(AtPositions(s)) = 1
    /\ DottedOk(LocalPart(s), Alnum \cup {"_", "-", "+"})
    /\ DottedOk(DomainPart(s), Alnum \cup {"-"})
    /\ DotPositions(DomainPart(s)) # {}
    /\ Len(Tld(DomainPart(s))) >= 2
    /\ Chars(Tld(DomainPart(s))) \subseteq Letters

IsEmail(s) == EmailShape(s)

JoiEmail(s) == EmailShape(s) /\ ToLowerCase(Tld(DomainPart(s))) \in IanaTlds

NormalizeEmail(s) ==
    IF AtPositions(s) = {}
    THEN <<"@">> \o ToLowerCase(s)
    ELSE LET k == CHOOSE i \in AtPositions(s) : \A j \in AtPositions(s) : j <= i
         IN  ToLowerCase(SubSeq(s, 1, k - 1)) \o <<"@">> \o ToLowerCase(SubSeq(s, k + 1, Len(s)))

----------------------------------------------------------------------------
(* Register: schema and validation chain *)

JoiUsername(u) == Chars(u) \subseteq Alnum /\ Len(u) >= UsernameMin /\ Len(u) <= UsernameMax

JoiRegisterPassword(p) ==
    /\ Len(p) >= PasswordMin
    /\ Chars(p) \cap Lower # {}
    /\ Chars(p) \cap Upper # {}
    /\ Chars(p) \cap Digit # {}
    /\ Chars(p) \cap JoiSymbols # {}

JoiRoleAnyString(r) == TRUE

JoiRole(r) == r = Undefined \/ r \in Roles

registerSchema(b) ==
    /\ JoiUsername(b.username)
    /\ JoiEmail(b.email)
    /\ JoiRegisterPassword(b.password)
    /\ JoiRole(b.role)

IsStrongPassword(p) ==
    /\ Len(p) >= PasswordMin
    /\ Chars(p) \cap Lower # {}
    /\ Chars(p) \cap Upper # {}
    /\ Chars(p) \cap Digit # {}
    /\ Chars(p) \cap ValidatorSymbols # {}

RegisterChainOk(b) ==
    /\ Trim(b.username) # <<>>
    /\ Chars(Trim(b.username)) \subseteq Alnum
    /\ Len(Trim(b.username)) >= UsernameMin /\ Len(Trim(b.username)) <= UsernameMax
    /\ IsEmail(b.email)
    /\ IsStrongPassword(b.password)

RegisterSanitize(b) ==
    [b EXCEPT !.username = Trim(b.username), !.email = NormalizeEmail(b.email)]

RegisterRejectsUsernameOnly(b) == ~JoiUsername(RegisterSanitize(b).username)

RegisterRejects(b) == ~registerSchema(RegisterSanitize(b)) \/ ~RegisterChainOk(b)

----------------------------------------------------------------------------
(* Login: schema and validation chain *)

loginSchema(b) == JoiEmail(b.email) /\ Len(b.password) >= PasswordMin

LoginChainOk(b) == IsEmail(b.email) /\ Len(b.password) >= PasswordMin

LoginSanitize(b) == [b EXCEPT !.email = NormalizeEmail(b.email)]

LoginRejects(b) == ~loginSchema(LoginSanitize(b)) \/ ~LoginChainOk(b)

----------------------------------------------------------------------------
(* Password hashing and token signing *)

BcryptHash(p) == [cost |-> BcryptCost, digest |-> p]

BcryptCompare(p, h) == h.digest = p

JwtSignThrows == env = Undefined

JwtSignTwoHours(u) ==
    [kind |-> "jwt", id |-> u.id, role |-> u.role,
     iat |-> clock, exp |-> clock + 2 * ExpiresIn, key |-> env]

JwtSignDefaultRole(u) ==
    [kind |-> "jwt", id |-> u.id, role |-> "user",
     iat |-> clock, exp |-> clock + ExpiresIn, key |-> env]

JwtSign(u) ==
    [kind |-> "jwt", id |-> u.id, role |-> u.role,
     iat |-> clock, exp |-> clock + ExpiresIn, key |-> env]

Summary(u) == [id |-> u.id, username |-> u.username, email |-> u.email, role |-> u.role]

----------------------------------------------------------------------------
(* Request inputs *)

Alice1 == <<"a","l","i","c","e","1">>
Alice2 == <<"a","l","i","c","e","2">>
BobPadded == <<" ","b","o","b"," ">>
Al == <<"a","l">>
EmailA == <<"a","@","x",".","c","o","m">>
EmailAUpper == <<"A","@","x",".","c","o","m">>
EmailB == <<"b","@","x",".","c","o","m">>
EmailMalformed == <<"a",".","x",".","c","o","m">>
StrongPass == <<"S","t","r","0","n","g","!","P","a","s","s">>
OtherPass == <<"O","t","h","e","r","!","P","a","s","s","1">>
WeakPass == <<"w","e","a","k","p","a","s","s">>
ShortPass == <<"S","h","0","r","t","!">>

RegBody(u, e, p, r) == [username |-> u, email |-> e, password |-> p, role |-> r]
LoginBody(e, p) == [username |-> <<>>, email |-> e, password |-> p, role |-> Undefined]

RegisterBodies ==
    { RegBody(Alice1, EmailA, StrongPass, Undefined),
      RegBody(Alice2, EmailA, OtherPass, Undefined),
      RegBody(Alice1, EmailB, StrongPass, "admin"),
      RegBody(Alice2, EmailAUpper, OtherPass, "user"),
      RegBody(Alice1, EmailA, WeakPass, Undefined),
      RegBody(BobPadded, EmailB, StrongPass, Undefined),
      RegBody(Al, EmailB, StrongPass, Undefined),
      RegBody(Alice2, EmailMalformed, StrongPass, Undefined),
      RegBody(Alice2, EmailB, StrongPass, "superuser"),
      RegBody(Alice1, EmailA, ShortPass, Undefined) }

LoginBodies ==
    { LoginBody(EmailA, StrongPass),
      LoginBody(EmailA, OtherPass),
      LoginBody(EmailAUpper, StrongPass),
      LoginBody(EmailB, StrongPass),
      LoginBody(EmailMalformed, StrongPass),
      LoginBody(EmailA, ShortPass) }

TokenRegisterBodies ==
    { RegBody(Alice1, EmailA, StrongPass, Undefined),
      RegBody(Alice2, EmailB, OtherPass, "admin") }

TokenLoginBodies == { LoginBody(EmailB, OtherPass) }

GarbageToken == [NoToken EXCEPT !.kind = "garbage"]
ForgedToken ==
    [kind |-> "jwt", id |-> 1, role |-> "admin",
     iat |-> clock, exp |-> clock + ExpiresIn, key |-> ForgedKey]

PresentableTokens == {NoToken, GarbageToken, ForgedToken} \cup {i.token : i \in issued}

----------------------------------------------------------------------------
(* Credential store: the users table *)

EmailRows(e) == {u \in users : u.email = e}
UsernameRows(n) == {u \in users : u.username = n}

UniqueViolationUsernameOnly(row) == UsernameRows(row.username) # {}

UniqueViolation(row) == EmailRows(row.email) # {} \/ UsernameRows(row.username) # {}

----------------------------------------------------------------------------
(* Start-up *)

Init ==
    /\ env \in {SecretKey, Undefined}
    /\ listening = FALSE
    /\ users = {}
    /\ nextId = 1
    /\ clock = 0
    /\ ticks = 0
    /\ started = 0
    /\ issued = {}
    /\ req = [r \in Slots |-> Idle]

Listen ==
    /\ ~listening
    /\ listening' = TRUE
    /\ UNCHANGED <<env, users, nextId, clock, ticks, started, issued, req>>

Tick(d) ==
    /\ ticks < MaxTicks
    /\ clock' = clock + d
    /\ ticks' = ticks + 1
    /\ UNCHANGED <<env, listening, users, nextId, started, issued, req>>

Accepting(r) == listening /\ req[r].pc \in {"idle", "done"} /\ started < MaxRequests

Failure(status, error) == [NoResp EXCEPT !.status = status, !.error = error]

----------------------------------------------------------------------------
(* POST /api/register *)

RegisterReceive(r, b) ==
    /\ Accepting(r)
    /\ started' = started + 1
    /\ LET fresh == [Idle EXCEPT !.kind = "register", !.sent = b, !.body = RegisterSanitize(b)]
       IN  IF RegisterRejects(b)
           THEN req' = [req EXCEPT ![r] =
                          [fresh EXCEPT !.pc = "done", !.resp = Failure(400, "errors")]]
           ELSE req' = [req EXCEPT ![r] = [fresh EXCEPT !.pc = "emailCheck"]]
    /\ UNCHANGED <<env, listening, users, nextId, clock, ticks, issued>>

RegisterEmailCheckUsernameMessage(r) ==
    /\ req[r].kind = "register" /\ req[r].pc = "emailCheck"
    /\ IF EmailRows(req[r].body.email) # {}
       THEN req' = [req EXCEPT ![r].queries = @ + 1, ![r].pc = "done",
                               ![r].resp = Failure(409, "Username already taken")]
       ELSE req' = [req EXCEPT ![r].queries = @ + 1, ![r].pc = "usernameCheck"]
    /\ UNCHANGED <<env, listening, users, nextId, clock, ticks, started, issued>>

RegisterEmailCheck(r) ==
    /\ req[r].kind = "register" /\ req[r].pc = "emailCheck"
    /\ IF EmailRows(req[r].body.email) # {}
       THEN req' = [req EXCEPT ![r].queries = @ + 1, ![r].pc = "done",
                               ![r].resp = Failure(409, "Email already in use")]
       ELSE req' = [req EXCEPT ![r].queries = @ + 1, ![r].pc = "usernameCheck"]
    /\ UNCHANGED <<env, listening, users, nextId, clock, ticks, started, issued>>

RegisterUsernameCheck(r) ==
    /\ req[r].kind = "register" /\ req[r].pc = "usernameCheck"
    /\ IF UsernameRows(req[r].body.username) # {}
       THEN req' = [req EXCEPT ![r].queries = @ + 1, ![r].pc = "done",
                               ![r].resp = Failure(409, "Username already taken")]
       ELSE req' = [req EXCEPT ![r].queries = @ + 1, ![r].pc = "hash"]
    /\ UNCHANGED <<env, listening, users, nextId, clock, ticks, started, issued>>

RegisterHash(r) ==
    /\ req[r].kind = "register" /\ req[r].pc = "hash"
    /\ req' = [req EXCEPT ![r].pc = "insert",
                          ![r].row = [id |-> 0,
                                      username |-> req[r].body.username,
                                      email |-> req[r].body.email,
                                      password_hash |-> BcryptHash(req[r].body.password),
                                      role |-> IF req[r].body.role = Undefined
                                               THEN "user" ELSE req[r].body.role]]
    /\ UNCHANGED <<env, listening, users, nextId, clock, ticks, started, issued>>

RegisterInsert(r) ==
    /\ req[r].kind = "register" /\ req[r].pc = "insert"
    /\ IF UniqueViolation(req[r].row)
       THEN /\ req' = [req EXCEPT ![r].queries = @ + 1, ![r].pc = "done",
                                  ![r].resp = Failure(500, "Registration failed")]
            /\ UNCHANGED <<users, nextId, issued>>
       ELSE LET user == [req[r].row EXCEPT !.id = nextId]
            IN  /\ users' = users \cup {user}
                /\ nextId' = nextId + 1
                /\ IF JwtSignThrows
                   THEN /\ req' = [req EXCEPT ![r].queries = @ + 1, ![r].pc = "done",
                                              ![r].row = user, ![r].inserted = TRUE,
                                              ![r].resp = Failure(500, "Registration failed")]
                        /\ UNCHANGED issued
                   ELSE /\ req' = [req EXCEPT ![r].queries = @ + 1, ![r].pc = "done",
                                              ![r].row = user, ![r].inserted = TRUE,
                                              ![r].resp = [status |-> 201,
                                                           message |-> "User registered successfully",
                                                           error |-> "",
                                                           user |-> Summary(user),
                                                           token |-> JwtSign(user)]]
                        /\ issued' = issued \cup
                               {[token |-> JwtSign(user), account |-> Summary(user)]}
    /\ UNCHANGED <<env, listening, clock, ticks, started>>

----------------------------------------------------------------------------
(* POST /api/login *)

LoginReceive(r, b) ==
    /\ Accepting(r)
    /\ started' = started + 1
    /\ LET fresh == [Idle EXCEPT !.kind = "login", !.sent = b, !.body = LoginSanitize(b)]
       IN  IF LoginRejects(b)
           THEN req' = [req EXCEPT ![r] =
                          [fresh EXCEPT !.pc = "done", !.resp = Failure(400, "errors")]]
           ELSE req' = [req EXCEPT ![r] = [fresh EXCEPT !.pc = "lookup"]]
    /\ UNCHANGED <<env, listening, users, nextId, clock, ticks, issued>>

LoginLookupNotFound(r) ==
    /\ req[r].kind = "login" /\ req[r].pc = "lookup"
    /\ IF EmailRows(req[r].body.email) = {}
       THEN req' = [req EXCEPT ![r].queries = @ + 1, ![r].pc = "done",
                               ![r].resp = Failure(404, "User not found")]
       ELSE req' = [req EXCEPT ![r].queries = @ + 1, ![r].pc = "compare",
                               ![r].row = CHOOSE u \in EmailRows(req[r].body.email) : TRUE]
    /\ UNCHANGED <<env, listening, users, nextId, clock, ticks, started, issued>>

LoginLookup(r) ==
    /\ req[r].kind = "login" /\ req[r].pc = "lookup"
    /\ IF EmailRows(req[r].body.email) = {}
       THEN req' = [req EXCEPT ![r].queries = @ + 1, ![r].pc = "done",
                               ![r].resp = Failure(401, "Invalid credentials")]
       ELSE req' = [req EXCEPT ![r].queries = @ + 1, ![r].pc = "compare",
                               ![r].row = CHOOSE u \in EmailRows(req[r].body.email) : TRUE]
    /\ UNCHANGED <<env, listening, users, nextId, clock, ticks, started, issued>>

LoginCompare(r) ==
    /\ req[r].kind = "login" /\ req[r].pc = "compare"
    /\ LET user == req[r].row
       IN  IF ~BcryptCompare(req[r].body.password, user.password_hash)
           THEN /\ req' = [req EXCEPT ![r].pc = "done",
                                      ![r].resp = Failure(401, "Invalid credentials")]
                /\ UNCHANGED issued
           ELSE IF JwtSignThrows
           THEN /\ req' = [req EXCEPT ![r].pc = "done",
                                      ![r].resp = Failure(500, "Authentication failed")]
                /\ UNCHANGED issued
           ELSE /\ req' = [req EXCEPT ![r].pc = "done",
                                      ![r].resp = [status |-> 200,
                                                   message |-> "Login successful",
                                                   error |-> "",
                                                   user |-> [Summary(user) EXCEPT !.username = <<>>],
                                                   token |-> JwtSign(user)]]
                /\ issued' = issued \cup
                       {[token |-> JwtSign(user), account |-> Summary(user)]}
    /\ UNCHANGED <<env, listening, users, nextId, clock, ticks, started>>

----------------------------------------------------------------------------
(* GET /protected: the access gate, then the handler *)

JwtVerify(t) ==
    /\ t.kind = "jwt"
    /\ env # Undefined
    /\ t.key = env
    /\ clock < t.exp

protectedRoutes(t) == t.kind # "none" /\ JwtVerify(t)

Protected(r, t) ==
    /\ Accepting(r)
    /\ started' = started + 1
    /\ LET fresh == [Idle EXCEPT !.kind = "protected", !.presented = t,
                                 !.at = clock, !.pc = "done"]
       IN  IF protectedRoutes(t)
           THEN req' = [req EXCEPT ![r] =
                          [fresh EXCEPT !.resp =
                              [NoResp EXCEPT !.status = 200,
                                             !.message = "This is a protected route",
                                             !.user = [NoUser EXCEPT !.id = t.id,
                                                                     !.role = t.role]]]]
           ELSE req' = [req EXCEPT ![r] =
                          [fresh EXCEPT !.resp = Failure(401, "Unauthorized")]]
    /\ UNCHANGED <<env, listening, users, nextId, clock, ticks, issued>>

----------------------------------------------------------------------------
(* The service *)

Next ==
    \/ Listen
    \/ \E r \in Slots : \E b \in RegisterBodies : RegisterReceive(r, b)
    \/ \E r \in Slots : RegisterEmailCheck(r)
    \/ \E r \in Slots : RegisterUsernameCheck(r)
    \/ \E r \in Slots : RegisterHash(r)
    \/ \E r \in Slots : RegisterInsert(r)
    \/ \E r \in Slots : \E b \in LoginBodies : LoginReceive(r, b)
    \/ \E r \in Slots : LoginLookup(r)
    \/ \E r \in Slots : LoginCompare(r)

Spec == Init /\ [][Next]_vars

(* The token lifetime and the access gate: the clock advances, and the     *)
(* requests are the ones that issue or present tokens.                     *)

TokenNext ==
    \/ Listen
    \/ \E d \in TickSteps : Tick(d)
    \/ \E r \in Slots : \E b \in TokenRegisterBodies : RegisterReceive(r, b)
    \/ \E r \in Slots : RegisterEmailCheck(r)
    \/ \E r \in Slots : RegisterUsernameCheck(r)
    \/ \E r \in Slots : RegisterHash(r)
    \/ \E r \in Slots : RegisterInsert(r)
    \/ \E r \in Slots : \E b \in TokenLoginBodies : LoginReceive(r, b)
    \/ \E r \in Slots : LoginLookup(r)
    \/ \E r \in Slots : LoginCompare(r)
    \/ \E r \in Slots : \E t \in PresentableTokens : Protected(r, t)

TokenSpec == Init /\ [][TokenNext]_vars

----------------------------------------------------------------------------
(* Properties *)

Registers == {r \in Slots : req[r].kind = "register"}
Logins == {r \in Slots : req[r].kind = "login"}
Gated == {r \in Slots : req[r].kind = "protected"}
Answered(r) == req[r].pc = "done"
Status(r) == req[r].resp.status

(* C1: of two valid Register requests with distinct usernames and the same *)
(* email, when one ends in 201 the other ends in 409, never in 500.        *)
C1_RaceLoserGetsConflict ==
    \A r1 \in Registers : \A r2 \in Registers :
        ( /\ r1 # r2
          /\ Answered(r1) /\ Answered(r2)
          /\ Status(r1) = 201 /\ Status(r2) # 400
          /\ req[r1].body.email = req[r2].body.email
          /\ req[r1].body.username # req[r2].body.username )
        => Status(r2) = 409

(* C2: no two accounts of the store share an email and no two share a      *)
(* username, in every reachable state.                                     *)
C2_UniqueAccounts ==
    \A u \in users : \A v \in users :
        (u.email = v.email \/ u.username = v.username) => u = v

C2_Witness ==
    \E r1 \in Registers : \E r2 \in Registers :
        /\ r1 # r2
        /\ Answered(r1) /\ Answered(r2)
        /\ req[r1].body.email = req[r2].body.email
        /\ req[r1].inserted
        /\ req[r2].queries = 3 /\ ~req[r2].inserted

NoAccountFound(r) == Answered(r) /\ req[r].queries = 1 /\ req[r].row = NoRow
WrongPassword(r) ==
    /\ Answered(r) /\ req[r].row # NoRow
    /\ req[r].row.password_hash.digest # req[r].body.password

(* C3: a Login that finds no account for the email and a Login that finds  *)
(* one whose password does not match get the same response: 401 with the   *)
(* error "Invalid credentials".                                            *)
C3_UndifferentiatedLoginFailure ==
    \A r1 \in Logins : \A r2 \in Logins :
        ( /\ NoAccountFound(r1) \/ WrongPassword(r1)
          /\ NoAccountFound(r2) \/ WrongPassword(r2) )
        => /\ req[r1].resp = req[r2].resp
           /\ Status(r1) = 401
           /\ req[r1].resp.error = "Invalid credentials"

C3_Witness ==
    \E r1 \in Logins : \E r2 \in Logins :
        /\ NoAccountFound(r1) /\ WrongPassword(r2)
        /\ req[r1].body.email # req[r2].body.email

WellFormedUsername(u) == Len(u) \in 3..30 /\ Chars(u) \subseteq Alnum
WellFormedPassword(p) ==
    /\ Len(p) >= 8
    /\ \E i \in 1..Len(p) : p[i] \in Lower
    /\ \E i \in 1..Len(p) : p[i] \in Upper
    /\ \E i \in 1..Len(p) : p[i] \in Digit
    /\ \E i \in 1..Len(p) : p[i] \notin Alnum
ShortCircuited(r) == Answered(r) /\ Status(r) = 400 /\ req[r].queries = 0 /\ ~req[r].inserted

LoginInputInvalid(r) ==
    ~EmailShape(req[r].sent.email) \/ Len(req[r].sent.password) < 8

(* C4: a Register or Login request whose input is structurally invalid is  *)
(* answered 400 at once, with no lookup and no insert.  As stated, the     *)
(* username is judged as it was sent.                                      *)
C4_InvalidInputAsSent ==
    /\ \A r \in Registers :
          ( \/ ~WellFormedUsername(req[r].sent.username)
            \/ ~EmailShape(req[r].sent.email)
            \/ ~WellFormedPassword(req[r].sent.password) ) => ShortCircuited(r)
    /\ \A r \in Logins : LoginInputInvalid(r) => ShortCircuited(r)

(* C4, amended: the same, the username being judged after the surrounding  *)
(* whitespace is trimmed from it.                                          *)
C4_InvalidInputShortCircuits ==
    /\ \A r \in Registers :
          ( \/ ~WellFormedUsername(Trim(req[r].sent.username))
            \/ ~EmailShape(req[r].sent.email)
            \/ ~WellFormedPassword(req[r].sent.password) ) => ShortCircuited(r)
    /\ \A r \in Logins : LoginInputInvalid(r) => ShortCircuited(r)

C4_Witness ==
    \E r1 \in Registers : \E r2 \in Logins :
        /\ req[r1].sent.password = WeakPass /\ ShortCircuited(r1)
        /\ LoginInputInvalid(r2) /\ ShortCircuited(r2)
        /\ users # {}

(* C5: a valid Register request that reaches the email lookup when an      *)
(* account has its email is answered 409 "Email already in use", whether   *)
(* or not the username is taken too; one that reaches the username lookup  *)
(* when an account has its username is answered 409 "Username already      *)
(* taken"; neither adds an account.  The email is looked up first.         *)
C5_EmailCheckedBeforeUsername ==
    [][ \A r \in Registers :
          /\ ( /\ req[r].pc = "emailCheck" /\ req'[r].pc # "emailCheck"
               /\ \E u \in users : u.email = req[r].body.email )
             => /\ req'[r].resp.status = 409
                /\ req'[r].resp.error = "Email already in use"
                /\ req'[r].queries = 1
                /\ users' = users
          /\ ( /\ req[r].pc = "usernameCheck" /\ req'[r].pc # "usernameCheck"
               /\ \E u \in users : u.username = req[r].body.username )
             => /\ req'[r].resp.status = 409
                /\ req'[r].resp.error = "Username already taken"
                /\ req'[r].queries = 2
                /\ users' = users ]_vars

C5_Witness ==
    \E r1 \in Registers : \E r2 \in Registers :
        /\ req[r1].sent = RegBody(Alice1, EmailA, StrongPass, Undefined)
        /\ Status(r1) = 201
        /\ req[r2].sent = RegBody(Alice2, EmailA, OtherPass, Undefined)
        /\ Status(r2) = 409 /\ req[r2].resp.error = "Email already in use"
        /\ Cardinality(users) = 1

IssuedTokens == {i.token : i \in issued}

(* C6: a token issued at time T is accepted by the gate exactly while less *)
(* than one hour has passed: accepted at T+59min, rejected at T+61min, and *)
(* never accepted at or after its expiry.                                  *)
C6_TokenValidOneHour ==
    \A r \in Gated :
        (Answered(r) /\ req[r].presented \in IssuedTokens)
        => /\ Status(r) = 200 <=> req[r].at < req[r].presented.iat + 60
           /\ Status(r) = 200 => req[r].at < req[r].presented.exp

C6_Witness ==
    \E r1 \in Gated : \E r2 \in Gated :
        /\ req[r1].presented \in IssuedTokens
        /\ req[r2].presented = req[r1].presented
        /\ req[r1].at = req[r1].presented.iat + 59 /\ Status(r1) = 200
        /\ req[r2].at = req[r2].presented.iat + 61 /\ Status(r2) = 401

HandlerRan(r) == req[r].resp.message = "This is a protected route"

(* C7: the protected operation answers 401, without running its handler,   *)
(* when the token is absent, malformed, signed with another key or         *)
(* expired; with an unexpired issued token it answers 200 and the identity *)
(* handed to the handler is the id and role of the token's account.        *)
C7_GateProtects ==
    \A r \in Gated :
        Answered(r) =>
        /\ ( \/ req[r].presented.kind # "jwt"
             \/ req[r].presented.key # SecretKey
             \/ req[r].at >= req[r].presented.exp )
           => Status(r) = 401 /\ ~HandlerRan(r)
        /\ \A i \in issued :
             (i.token = req[r].presented /\ req[r].at < i.token.exp)
             => /\ Status(r) = 200 /\ HandlerRan(r)
                /\ req[r].resp.user.id = i.account.id
                /\ req[r].resp.user.role = i.account.role
                /\ \E u \in users : u.id = i.account.id /\ u.role = i.account.role

C7_Witness ==
    \E r1 \in Gated : \E r2 \in Gated :
        /\ Status(r1) = 200 /\ req[r1].resp.user.role = "admin"
        /\ req[r2].presented \in IssuedTokens
        /\ req[r2].at >= req[r2].presented.exp /\ Status(r2) = 401

(* C8: a process with no signing secret configured never listens, answers  *)
(* no request and creates no account.                                      *)
C8_NoSecretNoService ==
    env = Undefined =>
        /\ ~listening
        /\ users = {}
        /\ \A r \in Slots : req[r] = Idle

(* C9: an account registered without a role has role "user", as has its    *)
(* token; a request with a role outside {user, admin} creates no account;  *)
(* every account and every issued token has role user or admin.            *)
C9_RolesRestricted ==
    /\ \A u \in users : u.role \in {"user", "admin"}
    /\ \A i \in issued : i.token.role \in {"user", "admin"}
    /\ \A r \in Registers :
          /\ (Status(r) = 201 /\ req[r].sent.role = Undefined)
             => /\ req[r].resp.user.role = "user"
                /\ req[r].resp.token.role = "user"
                /\ \E u \in users : u.id = req[r].resp.user.id /\ u.role = "user"
          /\ req[r].sent.role \notin {Undefined, "user", "admin"}
             => ShortCircuited(r)

C9_Witness ==
    \E r1 \in Registers : \E r2 \in Registers :
        /\ Status(r1) = 201 /\ req[r1].sent.role = Undefined
        /\ req[r2].sent.role = "superuser" /\ Answered(r2)

(* C10: a Register request adds an account if and only if it is answered   *)
(* 201.                                                                    *)
C10_AccountAddedIffSuccess ==
    \A r \in Registers : Answered(r) => (req[r].inserted <=> Status(r) = 201)

====
